---- MODULE Spec2Model ----
(***************************************************************************)
(* wally-package-types: rewriting of package link files ("thunks") so that *)
(* they re-export the exported type declarations of the module they        *)
(* require.                                                                *)
(*                                                                         *)
(*   RequireParserSpec  the require matcher (require_parser.rs, and the    *)
(*                      copy of it that command.rs carries)                *)
(*   LinkMutatorSpec    the type-forwarding code generator                 *)
(*                      (link_mutator.rs)                                  *)
(*   Spec               the command: Command::run and mutate_thunk         *)
(*                      (command.rs), run over a packages folder           *)
(***************************************************************************)
EXTENDS Integers, Sequences, FiniteSets, TLC

VARIABLES
    expression,       \* require matcher: the expression handed to match_require
    matched,          \* require_parser::match_require(expression)
    command_matched,  \* command.rs match_require(expression)
    code,             \* code generator: the source of the required module
    parsed_code,      \* code generator: the parsed link file
    mutated,          \* link_mutator::mutate_link(parsed_code, returns, code)
    files,            \* command: the file system, canonical path -> parsed content
    sourcemap_json,   \* command: the sourcemap file, as deserialized
    sourcemap,        \* command: the sourcemap of the running process
    pending,          \* command: directory entries still to be visited by run
    status,           \* command: "idle", "running", or the result "ok" / "failed"
    outcome,          \* command: what mutate_thunk did to each link in this run
    prev_outcome,     \* command: `outcome` of the previous run
    runs,             \* command: number of times the command was started
    node_path,        \* command: node_path of the last mutate_thunk, as its loop left it
    file_path         \* command: file_path of the last mutate_thunk

\* ------------------------------------------------------------------ bounds
MaxSuffixes == 2      \* suffixes of the path expression inside require(...)
MaxStmts == 2         \* statements of a module handed to the code generator
MaxRuns == 2          \* times the command is run over the same packages folder

\* ---------------------------------------------------------- results
\* Result<T> / Option<T> values and panics, as one record shape.
Ok(v) == [tag |-> "Ok", value |-> v, msg |-> ""]
Err(m) == [tag |-> "Err", value |-> <<>>, msg |-> m]
Some(v) == [tag |-> "Some", value |-> v, msg |-> ""]
None == [tag |-> "None", value |-> <<>>, msg |-> ""]
Panic(m) == [tag |-> "Panic", value |-> <<>>, msg |-> m]
NotRun == [tag |-> "NotRun", value |-> <<>>, msg |-> ""]

\* ---------------------------------------------------------- token text
\* The printed text of a token (with its trivia) or the content of a string
\* literal is a sequence of pieces; the piece " " is whitespace.
RECURSIVE trim_start(_)
trim_start(text) ==
    IF text # <<>> /\ Head(text) = " " THEN trim_start(Tail(text)) ELSE text

RECURSIVE trim_end(_)
trim_end(text) ==
    IF text # <<>> /\ text[Len(text)] = " "
    THEN trim_end(SubSeq(text, 1, Len(text) - 1))
    ELSE text

RECURSIVE to_string(_)
to_string(text) == IF text = <<>> THEN "" ELSE Head(text) \o to_string(Tail(text))

\* x.to_string().trim().to_string()
no_trim(text) == to_string(text)
trim(text) == to_string(trim_end(trim_start(text)))

\* ---------------------------------------------------------- expressions
VarExpression(prefix, suffixes) ==
    [kind |-> "VarExpression", prefix |-> prefix, suffixes |-> suffixes]
VarName(name) == [kind |-> "VarName", name |-> name]
StringExpr(literal) == [kind |-> "String", literal |-> literal]
NumberExpr == [kind |-> "Number"]
FunctionCall(prefix, suffixes) ==
    [kind |-> "FunctionCall", prefix |-> prefix, suffixes |-> suffixes]

Dot(name) == [kind |-> "Dot", name |-> name]
Brackets(e) == [kind |-> "Brackets", expression |-> e]
\* Call::AnonymousCall with FunctionArgs::Parentheses / String / TableConstructor
AnonymousCall(args, arguments) ==
    [kind |-> "AnonymousCall", args |-> args, arguments |-> arguments]
MethodCall(name, arguments) ==
    [kind |-> "MethodCall", name |-> name, arguments |-> arguments]

\* ------------------------------------------- require_parser.rs (the matcher)
UnsupportedComponents ==
    "require expression not supported: expression must contain components of form .value or ['value']"
UnsupportedBrackets ==
    "require expression not supported: expression contains brackets component not of the form ['value']"

RECURSIVE suffixes_to_components(_, _)
suffixes_to_components(suffixes, components) ==
    IF suffixes = <<>> THEN Ok(components)
    ELSE LET suffix == Head(suffixes) IN
         IF suffix.kind = "Dot"
         THEN suffixes_to_components(Tail(suffixes), Append(components, trim(suffix.name)))
         ELSE IF suffix.kind = "Brackets"
         THEN IF suffix.expression.kind = "String"
              THEN suffixes_to_components(Tail(suffixes),
                       Append(components, trim(suffix.expression.literal)))
              ELSE Err(UnsupportedBrackets)
         ELSE Err(UnsupportedComponents)

expression_to_components(e) ==
    IF e.kind # "VarExpression" THEN Err(UnsupportedComponents)
    ELSE suffixes_to_components(e.suffixes, <<trim(e.prefix)>>)

lenient_match_require(e) ==
    IF e.kind # "FunctionCall" THEN Err("is not a function call")
    ELSE IF trim(e.prefix) = "require" /\ Len(e.suffixes) = 1
    THEN LET call == e.suffixes[1] IN
         IF call.kind = "AnonymousCall" /\ call.args = "Parentheses"
            /\ Len(call.arguments) >= 1
         THEN expression_to_components(call.arguments[1])
         ELSE Ok(<<>>)
    ELSE Err("unknown require expression")

match_require(e) ==
    IF e.kind # "FunctionCall" THEN Err("is not a function call")
    ELSE IF trim(e.prefix) = "require" /\ Len(e.suffixes) = 1
    THEN LET call == e.suffixes[1] IN
         IF call.kind = "AnonymousCall" /\ call.args = "Parentheses"
            /\ Len(call.arguments) = 1
         THEN expression_to_components(call.arguments[1])
         ELSE Err("is not a require function call")
    ELSE Err("unknown require expression")

\* ------------------------------------------- command.rs (its own matcher)
RECURSIVE command_suffixes_to_components(_, _)
command_suffixes_to_components(suffixes, components) ==
    IF suffixes = <<>> THEN Some(components)
    ELSE LET suffix == Head(suffixes) IN
         IF suffix.kind = "Dot"
         THEN command_suffixes_to_components(Tail(suffixes),
                  Append(components, trim(suffix.name)))
         ELSE IF suffix.kind = "Brackets"
         THEN IF suffix.expression.kind = "String"
              THEN command_suffixes_to_components(Tail(suffixes),
                       Append(components, trim(suffix.expression.literal)))
              ELSE Panic("non-string brackets index")
         ELSE Panic("incorrect suffix")

command_expression_to_components(e) ==
    IF e.kind # "VarExpression" THEN Panic("unknown require expression")
    ELSE command_suffixes_to_components(e.suffixes, <<trim(e.prefix)>>)

command_match_require(e) ==
    IF e.kind # "FunctionCall" THEN Panic("unknown require expression")
    ELSE IF trim(e.prefix) = "require" /\ Len(e.suffixes) = 1
    THEN LET call == e.suffixes[1] IN
         IF call.kind = "AnonymousCall" /\ call.args = "Parentheses"
            /\ Len(call.arguments) = 1
         THEN command_expression_to_components(call.arguments[1])
         ELSE None
    ELSE Panic("unknown require expression")

\* ------------------------------------------- inputs of the matcher
SeqsUpTo(S, n) == UNION {[1..k -> S] : k \in 0..n}

IndexSuffixes ==
    { Dot(<<"Parent">>), Dot(<<"Example">>), Dot(<<"Example", " ">>),
      Brackets(StringExpr(<<"Example">>)), Brackets(StringExpr(<<" ", "Example">>)),
      Brackets(NumberExpr), Brackets(VarName(<<"name">>)),
      AnonymousCall("Parentheses", <<>>) }

SimplePath == VarExpression(<<"script">>, <<Dot(<<"Parent">>), Dot(<<"Example">>)>>)

ArgumentExpressions ==
    { VarExpression(p, ss) : p \in {<<"script">>, <<"game", " ">>},
                             ss \in SeqsUpTo(IndexSuffixes, MaxSuffixes) \ {<<>>} }
    \cup { VarName(<<"script">>), StringExpr(<<"literal/string">>), NumberExpr,
           FunctionCall(<<"require">>, <<AnonymousCall("Parentheses", <<SimplePath>>)>>) }

MatcherInputs ==
    { FunctionCall(<<"require">>, <<AnonymousCall("Parentheses", <<a>>)>>) :
          a \in ArgumentExpressions }
    \cup { FunctionCall(<<"require">>, <<AnonymousCall("Parentheses", <<>>)>>),
           FunctionCall(<<"require">>, <<AnonymousCall("Parentheses", <<SimplePath, SimplePath>>)>>),
           FunctionCall(<<"require", " ">>, <<AnonymousCall("String", <<StringExpr(<<"literal/string">>)>>)>>),
           FunctionCall(<<"require">>, <<AnonymousCall("TableConstructor", <<>>)>>),
           FunctionCall(<<"require">>, <<MethodCall(<<"get">>, <<SimplePath>>)>>),
           FunctionCall(<<"require">>, <<AnonymousCall("Parentheses", <<SimplePath>>),
                                         AnonymousCall("Parentheses", <<>>)>>),
           FunctionCall(<<"import">>, <<AnonymousCall("Parentheses", <<SimplePath>>)>>),
           SimplePath, VarName(<<"REQUIRED_MODULE">>), NumberExpr }

\* ------------------------------------------- link_mutator.rs (code generator)
\* TypeInfo values; a missing default type (Option::None) is NoDefault.
NoDefault == [kind |-> "NoDefault", name |-> ""]
Basic(name) == [kind |-> "Basic", name |-> name]
Boolean(value) == [kind |-> "Boolean", name |-> value]
OtherType(text) == [kind |-> "Other", name |-> text]
GenericPack(name) == [kind |-> "GenericPack", name |-> name]
IndexedBasic(base) == [kind |-> "IndexedBasic", base |-> base, generics |-> <<>>]
IndexedGeneric(base, generics) ==
    [kind |-> "IndexedGeneric", base |-> base, generics |-> generics]
Module(module, type_info) ==
    [kind |-> "Module", module |-> module, type_info |-> type_info]

\* GenericDeclarationParameter: GenericParameterInfo::Name / Variadic, and a default
Parameter(name, variadic, default) ==
    [name |-> name, variadic |-> variadic, default |-> default]

\* `export type <type_name><generics> = <type_definition>`; generics = <<>> is None
ExportedTypeDeclaration(type_name, generics, type_definition) ==
    [stmt |-> "ExportedTypeDeclaration", type_name |-> type_name,
     generics |-> generics, type_definition |-> type_definition]
\* `type <type_name> = ...`, not exported
TypeDeclaration(type_name, generics, type_definition) ==
    [stmt |-> "TypeDeclaration", type_name |-> type_name,
     generics |-> generics, type_definition |-> type_definition]
LocalAssignment(names, expressions) ==
    [stmt |-> "LocalAssignment", names |-> names, expressions |-> expressions]

Symbol(name) == [kind |-> "Symbol", name |-> name]
Return(returns) == [kind |-> "Return", returns |-> returns]
Break == [kind |-> "Break", returns |-> <<>>]
NoLastStmt == [kind |-> "None", returns |-> <<>>]
Ast(stmts, last_stmt) == [stmts |-> stmts, last_stmt |-> last_stmt]

REQUIRED_MODULE == <<"REQUIRED_MODULE">>

BuiltinTypes ==
    <<"any", "boolean", "buffer", "never", "number", "string", "thread", "unknown">>

Contains(list, x) == \E i \in 1..Len(list) : list[i] = x
IsExported(stmt) == stmt.stmt = "ExportedTypeDeclaration"

type_declarations_from_source(contents) ==
    IF ~ contents.parses THEN Err("parse errors")
    ELSE Ok(SelectSeq(contents.stmts, IsExported))

keep_every_default_type(type_info, resolved_types) == TRUE

should_keep_default_type(type_info, resolved_types) ==
    CASE type_info.kind = "Basic" -> Contains(resolved_types, type_info.name)
      [] type_info.kind = "Boolean" -> TRUE
      [] OTHER -> FALSE

strip_unknown_default_generics(generics, resolved_types) ==
    [i \in 1..Len(generics) |->
        IF /\ generics[i].default # NoDefault
           /\ should_keep_default_type(generics[i].default, resolved_types)
        THEN generics[i]
        ELSE [generics[i] EXCEPT !.default = NoDefault]]

\* the index expression REQUIRED_MODULE.<name> or REQUIRED_MODULE.<name><generics>
indexed_type_info(stmt) ==
    IF stmt.generics # <<>>
    THEN IndexedGeneric(stmt.type_name,
             [i \in 1..Len(stmt.generics) |->
                 IF stmt.generics[i].variadic
                 THEN GenericPack(stmt.generics[i].name)
                 ELSE Basic(stmt.generics[i].name)])
    ELSE IndexedBasic(stmt.type_name)

create_new_type_declaration_unapplied(stmt, known_type_names) ==
    LET resolved_types ==
            [i \in 1..Len(stmt.generics) |-> stmt.generics[i].name]
                \o BuiltinTypes \o known_type_names
        original_type_declaration ==
            [stmt EXCEPT !.generics =
                strip_unknown_default_generics(stmt.generics, resolved_types)]
    IN  [original_type_declaration EXCEPT !.type_definition =
            Module(REQUIRED_MODULE, IndexedBasic(stmt.type_name))]

create_new_type_declaration(stmt, known_type_names) ==
    LET type_info == indexed_type_info(stmt)
        resolved_types ==
            [i \in 1..Len(stmt.generics) |-> stmt.generics[i].name]
                \o BuiltinTypes \o known_type_names
        original_type_declaration ==
            IF stmt.generics # <<>>
            THEN [stmt EXCEPT !.generics =
                     strip_unknown_default_generics(stmt.generics, resolved_types)]
            ELSE stmt
    IN  [original_type_declaration EXCEPT !.type_definition =
            Module(REQUIRED_MODULE, type_info)]

re_export_without_known_names(stmts) ==
    [i \in 1..Len(stmts) |-> create_new_type_declaration(stmts[i], <<>>)]

re_export_type_declarations(stmts) ==
    LET known_type_names == [i \in 1..Len(stmts) |-> stmts[i].type_name]
    IN  [i \in 1..Len(stmts) |-> create_new_type_declaration(stmts[i], known_type_names)]

extract_require_into_local_stmt(return_expressions) ==
    LocalAssignment(<<REQUIRED_MODULE>>, return_expressions)

create_return_require_variable == Return(<<Symbol(REQUIRED_MODULE)>>)

Unchanged == [kind |-> "Unchanged", ast |-> <<>>]
Changed(ast) == [kind |-> "Changed", ast |-> ast]

mutate_link(link, return_expressions, contents) ==
    LET type_declarations == type_declarations_from_source(contents) IN
    IF type_declarations.tag = "Err" THEN type_declarations
    ELSE IF type_declarations.value = <<>> THEN Ok(Unchanged)
    ELSE Ok(Changed(Ast(
             <<extract_require_into_local_stmt(return_expressions)>>
                 \o re_export_type_declarations(type_declarations.value),
             create_return_require_variable)))

\* ------------------------------------------- inputs of the code generator
OpaqueType == OtherType("Types.Value<T, S>")

DefaultNames ==
    {BuiltinTypes[i] : i \in 1..Len(BuiltinTypes)}
        \cup {"T", "S", "Object", "Action", "Value"}

SecondParameters ==
    { Parameter("S", FALSE, d) :
          d \in {NoDefault, Boolean("true"), OtherType("{ T }")}
                    \cup {Basic(n) : n \in DefaultNames} }
    \cup { Parameter("S", TRUE, d) : d \in {NoDefault, OtherType("...T")} }

ModuleStmts ==
    { ExportedTypeDeclaration("Value", g, OpaqueType) :
          g \in {<<>>, <<Parameter("T", FALSE, NoDefault)>>}
                  \cup {<<Parameter("T", FALSE, NoDefault), p>> : p \in SecondParameters} }
    \cup { ExportedTypeDeclaration("Action", g, OtherType("string")) :
          g \in {<<>>} \cup {<<Parameter("T", FALSE, NoDefault),
                               Parameter("S", FALSE, Basic(n))>> :
                                  n \in {"Value", "Action", "Object"}} }
    \cup { TypeDeclaration("Object", <<>>, OtherType("{}")) }

ModuleSources ==
    {[parses |-> FALSE, stmts |-> <<>>]}
        \cup {[parses |-> TRUE, stmts |-> ss] : ss \in SeqsUpTo(ModuleStmts, MaxStmts)}

\* a link file as generated: `return require(<path>)`
Thunk(e) == Ast(<<>>, Return(<<e>>))

\* ------------------------------------------- command.rs (the command)
Node(name, class_name, file_paths, children) ==
    [name |-> name, class_name |-> class_name,
     file_paths |-> file_paths, children |-> children]

\* The sourcemap is a sequence of nodes; `children` are indices into it and the
\* root is node 1.
Root == 1

Source(parses, stmts, last_stmt) ==
    [parses |-> parses, stmts |-> stmts, last_stmt |-> last_stmt]

\* Path::canonicalize: the absolute path of an existing file
WorkingDirectory == "/project/"
canonicalize(path, fs) ==
    IF (WorkingDirectory \o path) \in DOMAIN fs
    THEN Ok(WorkingDirectory \o path)
    ELSE Err("No such file or directory")

find_last_child(tree, node, name) ==
    LET matching == {i \in 1..Len(tree[node].children) :
                        tree[tree[node].children[i]].name = name}
    IN  IF matching = {} THEN None
        ELSE Some(tree[node].children[CHOOSE i \in matching : \A j \in matching : i >= j])

find_child(tree, node, name) ==
    LET matching == {i \in 1..Len(tree[node].children) :
                        tree[tree[node].children[i]].name = name}
    IN  IF matching = {} THEN None
        ELSE Some(tree[node].children[CHOOSE i \in matching : \A j \in matching : i <= j])

\* canonicalizes what it can and keeps the other paths as they were
mutate_sourcemap_leniently(tree, fs) ==
    Ok([n \in 1..Len(tree) |->
           [tree[n] EXCEPT !.file_paths =
               [i \in 1..Len(tree[n].file_paths) |->
                   IF canonicalize(tree[n].file_paths[i], fs).tag = "Ok"
                   THEN canonicalize(tree[n].file_paths[i], fs).value
                   ELSE tree[n].file_paths[i]]]])

mutate_sourcemap(tree, fs) ==
    IF \E n \in 1..Len(tree) : \E i \in 1..Len(tree[n].file_paths) :
           canonicalize(tree[n].file_paths[i], fs).tag = "Err"
    THEN Panic("failed to canonicalize")
    ELSE Ok([n \in 1..Len(tree) |->
                [tree[n] EXCEPT !.file_paths =
                    [i \in 1..Len(tree[n].file_paths) |->
                        canonicalize(tree[n].file_paths[i], fs).value]]])

\* sourcemap.rs: the same function, returning the error instead of panicking
sourcemap_mutate_sourcemap(tree, fs) ==
    IF \E n \in 1..Len(tree) : \E i \in 1..Len(tree[n].file_paths) :
           canonicalize(tree[n].file_paths[i], fs).tag = "Err"
    THEN Err("Failed to canonicalize")
    ELSE Ok([n \in 1..Len(tree) |->
                [tree[n] EXCEPT !.file_paths =
                    [i \in 1..Len(tree[n].file_paths) |->
                        canonicalize(tree[n].file_paths[i], fs).value]]])

RECURSIVE find_node_loop(_, _, _)
find_node_loop(tree, stack, path) ==
    IF stack = <<>> THEN None
    ELSE LET chain == stack[Len(stack)]
             node == tree[chain[Len(chain)]]
         IN  IF Contains(node.file_paths, path) THEN Some(chain)
             ELSE find_node_loop(tree,
                      SubSeq(stack, 1, Len(stack) - 1)
                          \o [i \in 1..Len(node.children) |->
                                 Append(chain, node.children[i])],
                      path)

find_node(tree, path) == find_node_loop(tree, <<<<Root>>>>, path)

\* a panic inside the loop over the components, with node_path as it then is
PanicAt(chain, m) == [tag |-> "Panic", value |-> chain, msg |-> m]

\* the loop over the components after the first one
RECURSIVE walk_components(_, _, _)
walk_components(tree, chain, components) ==
    IF components = <<>> THEN Ok(chain)
    ELSE IF Head(components) = "Parent"
    THEN IF chain = <<>> THEN PanicAt(chain, "No parent available")
         ELSE walk_components(tree, SubSeq(chain, 1, Len(chain) - 1), Tail(components))
    ELSE IF chain = <<>> THEN PanicAt(chain, "called Option::unwrap() on a None value")
    ELSE LET child == find_child(tree, chain[Len(chain)], Head(components))
         IN  IF child.tag = "None" THEN PanicAt(chain, "unable to find child")
             ELSE walk_components(tree, Append(chain, child.value), Tail(components))

\* from the path components to the chain of nodes down to the required one
required_node_path(path, tree, fs, components) ==
    IF components[1] \notin {"script", "game"}
    THEN Panic("assertion failed: first_in_chain == script || first_in_chain == game")
    ELSE LET start ==
                 IF components[1] = "script"
                 THEN IF canonicalize(path, fs).tag = "Err" THEN canonicalize(path, fs)
                      ELSE IF find_node(tree, canonicalize(path, fs).value) = None
                           THEN Panic("could not find node path")
                           ELSE Ok(find_node(tree, canonicalize(path, fs).value).value)
                 ELSE Ok(<<Root>>)
         IN  IF start.tag # "Ok" THEN start
             ELSE walk_components(tree, start.value, Tail(components))

\* from the chain of nodes to the file of the required module
first_file_path(tree, chain) ==
    IF chain = <<>> THEN Panic("called Option::unwrap() on a None value")
    ELSE LET current == tree[chain[Len(chain)]]
         IN  IF current.file_paths = <<>> THEN Panic("No file path for require")
             ELSE Ok(current.file_paths[1])

\* from the path components to the file of the required module
required_file_path(path, tree, fs, components) ==
    LET found == required_node_path(path, tree, fs, components)
    IN  IF found.tag # "Ok" THEN [found EXCEPT !.value = <<>>]
        ELSE first_file_path(tree, found.value)

\* the copy of create_new_type_declaration in command.rs: the generics, with
\* their defaults, are those of the original declaration
command_create_new_type_declaration(stmt) ==
    [stmt EXCEPT !.type_definition = Module(REQUIRED_MODULE, indexed_type_info(stmt))]

\* full_moon::print, then full_moon::parse of what was written: the symbol
\* REQUIRED_MODULE of the new return is read back as a variable name
print_and_parse(ast) ==
    Source(TRUE, ast.stmts,
           [ast.last_stmt EXCEPT !.returns =
               [i \in 1..Len(ast.last_stmt.returns) |->
                   IF ast.last_stmt.returns[i].kind = "Symbol"
                   THEN VarName(ast.last_stmt.returns[i].name)
                   ELSE ast.last_stmt.returns[i]]])

always_created(new_stmts) == TRUE
type_declarations_created(new_stmts) ==
    \E i \in 1..Len(new_stmts) : new_stmts[i].stmt = "ExportedTypeDeclaration"

new_nodes_inserted(link, new_stmts) == Ast(link.stmts \o new_stmts, link.last_stmt)
new_nodes(link, new_stmts) == Ast(new_stmts, Return(<<Symbol(REQUIRED_MODULE)>>))

\* What one call of mutate_thunk does: how it ends ("Ok", "Err", "Panic"), the
\* outcome for the link, and the content written to the link, if any.
Ended(result, msg) ==
    [result |-> result, outcome |-> "Failed", msg |-> msg, write |-> FALSE, content |-> <<>>,
     node_path |-> NotRun, file_path |-> NotRun]
Done(link, new_stmts) ==
    [result |-> "Ok",
     outcome |-> IF \E i \in 1..Len(new_stmts) : new_stmts[i].stmt = "ExportedTypeDeclaration"
                 THEN "Changed" ELSE "Unchanged",
     msg |-> "",
     write |-> type_declarations_created(new_stmts),
     content |-> IF type_declarations_created(new_stmts)
                 THEN print_and_parse(new_nodes(link, new_stmts)) ELSE <<>>,
     node_path |-> NotRun, file_path |-> NotRun]

\* the same, for a call that went as far as the loop over the components
Resolved(end, found, file) ==
    [end EXCEPT !.node_path = found,
                !.file_path = IF found.tag = "Ok" THEN file ELSE NotRun]

mutate_thunk(path, tree, fs) ==
    IF canonicalize(path, fs).tag = "Err" THEN Ended("Err", "read_to_string")
    ELSE LET link == fs[canonicalize(path, fs).value] IN
    IF ~ link.parses THEN Ended("Err", "parse")
    ELSE IF link.last_stmt = NoLastStmt
    THEN Ended("Panic", "assertion failed: parsed_code.nodes().last_stmt().is_some()")
    ELSE IF link.last_stmt.kind # "Return" THEN Done(link, <<>>)
    ELSE IF link.last_stmt.returns = <<>>
    THEN Ended("Panic", "called Option::unwrap() on a None value")
    ELSE LET path_components == command_match_require(link.last_stmt.returns[1]) IN
    IF path_components.tag = "Panic" THEN Ended("Panic", path_components.msg)
    ELSE IF path_components = None THEN Ended("Panic", "could not resolve path for require")
    ELSE LET found == required_node_path(path, tree, fs, path_components.value)
             file == required_file_path(path, tree, fs, path_components.value) IN
    IF file.tag # "Ok" THEN Resolved(Ended(file.tag, file.msg), found, file)
    ELSE LET parsed_module == fs[file.value] IN
    IF ~ parsed_module.parses THEN Resolved(Ended("Err", "parse"), found, file)
    ELSE Resolved(Done(link,
                       <<LocalAssignment(<<REQUIRED_MODULE>>, link.last_stmt.returns)>>
                           \o [i \in 1..Len(SelectSeq(parsed_module.stmts, IsExported)) |->
                                  command_create_new_type_declaration(
                                      SelectSeq(parsed_module.stmts, IsExported)[i])]),
                  found, file)

\* ------------------------------------------- the packages folder
LinkA == "Packages/A.lua"
LinkB == "Packages/B.lua"
LinkC == "Packages/_Index/pkg/C.lua"
LinkFiles == {LinkA, LinkB, LinkC}

TypedModule == "Packages/_Index/pkg/Typed/init.lua"
UntypedModule == "Packages/_Index/pkg/Untyped/init.lua"
BrokenModule == "Packages/_Index/pkg/Broken/init.lua"
MixedProject == "Packages/_Index/pkg/Mixed/default.project.json"
MixedModule == "Packages/_Index/pkg/Mixed/init.lua"
SiblingModule == "Packages/_Index/Sibling/init.lua"

Sourcemap ==
    << Node("game", "DataModel", <<>>, <<2>>),
       Node("Packages", "Folder", <<>>, <<3, 4, 5>>),
       Node("A", "ModuleScript", <<LinkA>>, <<>>),
       Node("B", "ModuleScript", <<LinkB>>, <<>>),
       Node("_Index", "Folder", <<>>, <<6>>),
       Node("pkg", "Folder", <<>>, <<7, 8, 9, 10, 11, 12>>),
       Node("C", "ModuleScript", <<LinkC>>, <<>>),
       Node("Typed", "ModuleScript", <<TypedModule>>, <<>>),
       Node("Untyped", "ModuleScript", <<UntypedModule>>, <<>>),
       Node("Broken", "ModuleScript", <<BrokenModule>>, <<>>),
       Node("Assets", "Folder", <<>>, <<>>),
       Node("Mixed", "ModuleScript", <<MixedProject, MixedModule>>, <<>>) >>

\* the same, with a node whose file was deleted after the sourcemap was generated
StaleSourcemap ==
    [Sourcemap EXCEPT ![11] = Node("Assets", "ModuleScript",
                                   <<"Packages/_Index/pkg/Assets/init.lua">>, <<>>)]

\* a project whose tree is the packages folder itself: the links of the index
\* are three levels below the root; pkg has two children named Typed
LibrarySourcemap ==
    << Node("Packages", "Folder", <<>>, <<2, 3, 4>>),
       Node("A", "ModuleScript", <<LinkA>>, <<>>),
       Node("B", "ModuleScript", <<LinkB>>, <<>>),
       Node("_Index", "Folder", <<>>, <<5, 13>>),
       Node("pkg", "Folder", <<>>, <<6, 7, 8, 9, 10, 11, 12>>),
       Node("C", "ModuleScript", <<LinkC>>, <<>>),
       Node("Typed", "ModuleScript", <<TypedModule>>, <<>>),
       Node("Untyped", "ModuleScript", <<UntypedModule>>, <<>>),
       Node("Broken", "ModuleScript", <<BrokenModule>>, <<>>),
       Node("Assets", "Folder", <<>>, <<>>),
       Node("Mixed", "ModuleScript", <<MixedProject, MixedModule>>, <<>>),
       Node("Typed", "Folder", <<>>, <<>>),
       Node("Sibling", "ModuleScript", <<SiblingModule>>, <<>>) >>

TypedSource ==
    Source(TRUE,
           << TypeDeclaration("Object", <<>>, OtherType("{}")),
              ExportedTypeDeclaration("Action", <<>>, OtherType("string")),
              ExportedTypeDeclaration("Value",
                  <<Parameter("T", FALSE, NoDefault), Parameter("S", FALSE, Basic("Object"))>>,
                  OpaqueType) >>,
           Return(<<VarName(<<"Types">>)>>))
UntypedSource ==
    Source(TRUE, <<TypeDeclaration("Object", <<>>, OtherType("{}"))>>,
           Return(<<VarName(<<"Module">>)>>))
Unparsable == Source(FALSE, <<>>, NoLastStmt)

RequireOf(components) ==
    FunctionCall(<<"require">>, <<AnonymousCall("Parentheses",
        <<VarExpression(<<components[1]>>,
              [i \in 1..(Len(components) - 1) |-> Dot(<<components[i + 1]>>)])>>)>>)

LinkTo(components) == Source(TRUE, <<>>, Return(<<RequireOf(components)>>))

\* what a link file of the packages folder may hold
RootLinkSources ==
    { LinkTo(<<"script", "Parent", "_Index", "pkg", name>>) :
          name \in {"Typed", "Untyped", "Broken", "Assets", "Mixed", "Missing"} }
    \cup { LinkTo(<<"game", "Packages", "_Index", "pkg", "Typed">>),
           LinkTo(<<"game", "Parent">>),
           LinkTo(<<"script", "Parent", "Parent", "Parent", "Parent">>),
           LinkTo(<<"workspace", "Packages">>),
           Source(TRUE, <<>>, Return(<<FunctionCall(<<"require">>,
               <<AnonymousCall("Parentheses", <<StringExpr(<<"literal/string">>)>>)>>)>>)),
           Source(TRUE, <<>>, Return(<<RequireOf(<<"script", "Parent", "_Index", "pkg", "Typed">>),
                                       NumberExpr>>)),
           Source(TRUE, <<>>, Return(<<>>)),
           Source(TRUE, <<>>, Break),
           Source(TRUE, <<>>, NoLastStmt),
           Unparsable }

SecondLinkSources ==
    { LinkTo(<<"script", "Parent", "_Index", "pkg", "Typed">>),
      LinkTo(<<"script", "Parent", "_Index", "pkg", "Untyped">>),
      LinkTo(<<"script", "Parent", "_Index", "pkg", "Missing">>),
      Source(TRUE, <<>>, Break) }

IndexLinkSources ==
    { LinkTo(<<"script", "Parent", "Typed">>),
      LinkTo(<<"script", "Parent", "Untyped">>),
      LinkTo(<<"script", "Parent", "Broken">>),
      LinkTo(<<"script", "Parent", "Parent", "Sibling">>) }

FileSystem(a, b, c) ==
    (WorkingDirectory \o LinkA) :> a @@ (WorkingDirectory \o LinkB) :> b
        @@ (WorkingDirectory \o LinkC) :> c
        @@ (WorkingDirectory \o TypedModule) :> TypedSource
        @@ (WorkingDirectory \o UntypedModule) :> UntypedSource
        @@ (WorkingDirectory \o BrokenModule) :> Unparsable
        @@ (WorkingDirectory \o MixedProject) :> Unparsable
        @@ (WorkingDirectory \o MixedModule) :> TypedSource
        @@ (WorkingDirectory \o SiblingModule) :> TypedSource

\* read_dir of the packages folder, in any order; the links under _Index come
\* where the _Index entry comes
DirectoryOrders ==
    { <<LinkA, LinkB, LinkC>>, <<LinkB, LinkA, LinkC>>, <<LinkA, LinkC, LinkB>>,
      <<LinkB, LinkC, LinkA>>, <<LinkC, LinkA, LinkB>>, <<LinkC, LinkB, LinkA>> }

NotLoaded == <<>>
NoOutcome == [f \in LinkFiles |-> "none"]

\* ------------------------------------------- RequireParserSpec
vars == <<expression, matched, command_matched, code, parsed_code, mutated,
          files, sourcemap_json, sourcemap, pending, status, outcome, prev_outcome, runs,
          node_path, file_path>>

matcher_vars == <<expression, matched, command_matched>>
codegen_vars == <<code, parsed_code, mutated>>
command_vars ==
    <<files, sourcemap_json, sourcemap, pending, status, outcome, prev_outcome, runs,
      node_path, file_path>>

\* the variables of a part that a specification does not run
MatcherIdle == expression = NumberExpr /\ matched = NotRun /\ command_matched = NotRun
CodegenIdle == code = <<>> /\ parsed_code = <<>> /\ mutated = NotRun
CommandIdle ==
    /\ files = <<>> /\ sourcemap_json = <<>> /\ sourcemap = NotLoaded
    /\ pending = <<>> /\ status = "idle"
    /\ outcome = NoOutcome /\ prev_outcome = NoOutcome /\ runs = 0
    /\ node_path = NotRun /\ file_path = NotRun

RequireParserInit ==
    /\ expression \in MatcherInputs
    /\ matched = NotRun
    /\ command_matched = NotRun
    /\ CodegenIdle
    /\ CommandIdle

ApplyMatchRequire ==
    /\ matched = NotRun
    /\ matched' = match_require(expression)
    /\ UNCHANGED <<expression, command_matched, codegen_vars, command_vars>>

ApplyCommandMatchRequire ==
    /\ command_matched = NotRun
    /\ command_matched' = command_match_require(expression)
    /\ UNCHANGED <<expression, matched, codegen_vars, command_vars>>

RequireParserNext == ApplyMatchRequire \/ ApplyCommandMatchRequire

RequireParserSpec == RequireParserInit /\ [][RequireParserNext]_vars

\* ------------------------------------------- LinkMutatorSpec
LinkMutatorInit ==
    /\ code \in ModuleSources
    /\ parsed_code \in
           {Thunk(FunctionCall(<<"require">>, <<AnonymousCall("Parentheses", <<a>>)>>)) :
                a \in {SimplePath, VarExpression(<<"game">>, <<Dot(<<"Packages">>)>>)}}
    /\ mutated = NotRun
    /\ MatcherIdle
    /\ CommandIdle

ApplyMutateLink ==
    /\ mutated.tag = "NotRun"
    /\ mutated' = mutate_link(parsed_code, parsed_code.last_stmt.returns, code)
    /\ UNCHANGED <<code, parsed_code, matcher_vars, command_vars>>

LinkMutatorNext == ApplyMutateLink

LinkMutatorSpec == LinkMutatorInit /\ [][LinkMutatorNext]_vars

\* ------------------------------------------- Spec (the command)
Init ==
    /\ \E a \in RootLinkSources, b \in SecondLinkSources, c \in IndexLinkSources :
           files = FileSystem(a, b, c)
    /\ sourcemap_json \in {Sourcemap, StaleSourcemap, LibrarySourcemap}
    /\ sourcemap = NotLoaded
    /\ pending = <<>>
    /\ status = "idle"
    /\ outcome = NoOutcome
    /\ prev_outcome = NoOutcome
    /\ runs = 0
    /\ node_path = NotRun
    /\ file_path = NotRun
    /\ MatcherIdle
    /\ CodegenIdle

\* Command::run up to its loop: the sourcemap is read and canonicalized and the
\* packages folder is listed.
Run ==
    /\ status # "running"
    /\ runs < MaxRuns
    /\ runs' = runs + 1
    /\ prev_outcome' = outcome
    /\ outcome' = NoOutcome
    /\ node_path' = NotRun
    /\ file_path' = NotRun
    /\ IF mutate_sourcemap(sourcemap_json, files).tag = "Panic"
       THEN /\ status' = "failed"
            /\ sourcemap' = NotLoaded
            /\ pending' = <<>>
       ELSE /\ status' = "running"
            /\ sourcemap' = mutate_sourcemap(sourcemap_json, files).value
            /\ pending' \in DirectoryOrders
    /\ UNCHANGED <<files, sourcemap_json, matcher_vars, codegen_vars>>

\* One turn of the loop of Command::run (or of handle_index_directory):
\* mutate_thunk on the next entry; an error or a panic ends the run.
MutateThunk ==
    /\ status = "running"
    /\ pending # <<>>
    /\ LET path == Head(pending)
           done == mutate_thunk(path, sourcemap, files)
       IN  /\ files' = IF done.write
                       THEN [files EXCEPT ![canonicalize(path, files).value] = done.content]
                       ELSE files
           /\ outcome' = [outcome EXCEPT ![path] = done.outcome]
           /\ node_path' = done.node_path
           /\ file_path' = done.file_path
           /\ pending' = Tail(pending)
           /\ status' = IF done.result # "Ok" THEN "failed"
                        ELSE IF Tail(pending) = <<>> THEN "ok"
                        ELSE "running"
    /\ UNCHANGED <<sourcemap_json, sourcemap, prev_outcome, runs,
                   matcher_vars, codegen_vars>>

Next == Run \/ MutateThunk

Spec == Init /\ [][Next]_vars

\* ------------------------------------------- claims about the matcher
\* The one word of a token text or string literal (its non-blank piece).
Word(text) == CHOOSE w \in {text[i] : i \in 1..Len(text)} : w # " "

IsIndexSuffix(suffix) ==
    \/ suffix.kind = "Dot"
    \/ suffix.kind = "Brackets" /\ suffix.expression.kind = "String"

SuffixWord(suffix) ==
    IF suffix.kind = "Dot" THEN Word(suffix.name) ELSE Word(suffix.expression.literal)

\* e is require(<one argument>), written with parentheses
IsRequireOfOne(e) ==
    /\ e.kind = "FunctionCall"
    /\ Word(e.prefix) = "require"
    /\ Len(e.suffixes) = 1
    /\ e.suffixes[1].kind = "AnonymousCall"
    /\ e.suffixes[1].args = "Parentheses"
    /\ Len(e.suffixes[1].arguments) = 1

RequireArgument(e) == e.suffixes[1].arguments[1]

\* e is require(<ident><suffixes>) with at least one suffix, each .name or ['name']
IsRequireOfPath(e) ==
    /\ IsRequireOfOne(e)
    /\ RequireArgument(e).kind = "VarExpression"
    /\ \A i \in 1..Len(RequireArgument(e).suffixes) :
           IsIndexSuffix(RequireArgument(e).suffixes[i])

ExpectedComponents(e) ==
    <<Word(RequireArgument(e).prefix)>>
        \o [i \in 1..Len(RequireArgument(e).suffixes) |->
               SuffixWord(RequireArgument(e).suffixes[i])]

RequireDotExample ==
    FunctionCall(<<"require">>, <<AnonymousCall("Parentheses", <<SimplePath>>)>>)
RequireBracketsExample ==
    FunctionCall(<<"require">>, <<AnonymousCall("Parentheses",
        <<VarExpression(<<"script">>,
            <<Dot(<<"Parent">>), Brackets(StringExpr(<<"Example">>))>>)>>)>>)

IsUnsupportedCall(e) ==
    /\ e.kind = "FunctionCall"
    /\ ~ IsRequireOfPath(e)
    /\ ~ (IsRequireOfOne(e) /\ RequireArgument(e).kind = "VarName")

\* C10: for a call-shaped expression outside the supported shape (string-literal
\* argument, zero or several arguments, nested call, method call, call without
\* parentheses, non-string bracket index) the matcher returns an error: never a
\* component list, never "no match" as a success.
C10_UnsupportedShapeIsError ==
    IsUnsupportedCall(expression)
        => /\ matched # NotRun => matched.tag = "Err"
           /\ command_matched.tag # "Some"

C10_Witness ==
    /\ expression = FunctionCall(<<"require">>,
           <<AnonymousCall("Parentheses", <<StringExpr(<<"literal/string">>)>>)>>)
    /\ matched.tag = "Err"
    /\ command_matched.tag = "Panic"

\* ------------------------------------------- claims about the code generator
IsChanged == mutated.tag = "Ok" /\ mutated.value.kind = "Changed"

\* the exported type declarations of the module, in source order
RECURSIVE ExportedIn(_)
ExportedIn(stmts) ==
    IF stmts = <<>> THEN <<>>
    ELSE IF Head(stmts).stmt = "ExportedTypeDeclaration"
         THEN <<Head(stmts)>> \o ExportedIn(Tail(stmts))
         ELSE ExportedIn(Tail(stmts))

Declarations == ExportedIn(code.stmts)
\* the k-th forwarding declaration of the new link
Forwarded(k) == mutated.value.ast.stmts[k + 1]

BuiltinNames ==
    {"any", "boolean", "buffer", "never", "number", "string", "thread", "unknown"}
OwnGenericNames(d) == {d.generics[i].name : i \in 1..Len(d.generics)}
NamesAt(positions) == {Declarations[j].type_name : j \in positions}

SameParameters(d, f) ==
    /\ Len(f.generics) = Len(d.generics)
    /\ \A i \in 1..Len(d.generics) :
           /\ f.generics[i].name = d.generics[i].name
           /\ f.generics[i].variadic = d.generics[i].variadic

\* the default of parameter i of declaration k is a simple name outside `names`:
\* it is kept exactly when built-in or one of the declaration's generic parameters
DefaultRule(k, i, names) ==
    LET d == Declarations[k]
        default == d.generics[i].default
    IN  (default.kind = "Basic" /\ default.name \notin names)
            => Forwarded(k).generics[i].default =
                   IF default.name \in BuiltinNames \cup OwnGenericNames(d)
                   THEN default ELSE NoDefault

\* C5 (as stated): every generic parameter is kept (name, order, variadic flag);
\* a default that is a simple name and not the name of ANOTHER declaration of the
\* module is kept iff it is a built-in type name or one of the declaration's own
\* generic parameters, and removed otherwise.
C5_DefaultsOutsideOtherDeclarations ==
    IsChanged =>
        \A k \in 1..Len(Declarations) :
            /\ SameParameters(Declarations[k], Forwarded(k))
            /\ \A i \in 1..Len(Declarations[k].generics) :
                   DefaultRule(k, i, NamesAt((1..Len(Declarations)) \ {k}))

\* C5 (amended): the same, for a default that is not the name of ANY exported
\* declaration of the module, the forwarded declaration itself included.
C5_DefaultsOutsideDeclarations ==
    IsChanged =>
        \A k \in 1..Len(Declarations) :
            /\ SameParameters(Declarations[k], Forwarded(k))
            /\ \A i \in 1..Len(Declarations[k].generics) :
                   DefaultRule(k, i, NamesAt(1..Len(Declarations)))

C5_Witness ==
    /\ IsChanged
    /\ Len(Declarations) = 2
    /\ Declarations[1].type_name = "Value"
    /\ Len(Declarations[1].generics) = 2
    /\ Declarations[1].generics[2].default = Basic("unknown")
    /\ Forwarded(1).generics[2].default = Basic("unknown")
    /\ Declarations[2].type_name = "Action"
    /\ Len(Declarations[2].generics) = 2
    /\ Declarations[2].generics[2].default = Basic("Object")
    /\ Forwarded(2).generics[2] = Parameter("S", FALSE, NoDefault)

\* C6: a default naming an exported declaration that appears earlier in the
\* module than the declaration being forwarded is kept verbatim.
C6_EarlierDeclarationDefaultKept ==
    IsChanged =>
        \A k \in 1..Len(Declarations) :
            \A i \in 1..Len(Declarations[k].generics) :
                LET default == Declarations[k].generics[i].default IN
                (default.kind = "Basic" /\ default.name \in NamesAt(1..(k - 1)))
                    => Forwarded(k).generics[i].default = default

C6_Witness ==
    /\ IsChanged
    /\ Len(Declarations) = 2
    /\ Declarations[1].type_name = "Action"
    /\ Declarations[2].type_name = "Value"
    /\ Len(Declarations[2].generics) = 2
    /\ Declarations[2].generics[2].default = Basic("Action")
    /\ Forwarded(2).generics[2].default = Basic("Action")

\* C7: a default naming an exported declaration that appears later in the module
\* (and that is neither built-in, nor a generic parameter of the declaration, nor
\* the name of a declaration at or before it) is stripped.
C7_LaterDeclarationDefaultStripped ==
    IsChanged =>
        \A k \in 1..Len(Declarations) :
            \A i \in 1..Len(Declarations[k].generics) :
                LET default == Declarations[k].generics[i].default IN
                (/\ default.kind = "Basic"
                 /\ default.name \in NamesAt((k + 1)..Len(Declarations))
                 /\ default.name \notin NamesAt(1..k)
                 /\ default.name \notin BuiltinNames \cup OwnGenericNames(Declarations[k]))
                    => Forwarded(k).generics[i].default = NoDefault

\* the generic argument list of a declaration: its parameters, by name
ArgumentsOf(d) ==
    [i \in 1..Len(d.generics) |->
        [kind |-> IF d.generics[i].variadic THEN "GenericPack" ELSE "Basic",
         name |-> d.generics[i].name]]

\* C8: the new link is exactly `local REQUIRED_MODULE = <original return
\* expression>`, then one forwarding declaration per exported declaration of the
\* module, in source order and under the same name, whose body is
\* REQUIRED_MODULE.<name> applied (if generic) to the same generic arguments,
\* then `return REQUIRED_MODULE`.
C8_NewLinkShape ==
    IsChanged =>
        LET new == mutated.value.ast IN
        /\ Len(new.stmts) = 1 + Len(Declarations)
        /\ new.stmts[1] = [stmt |-> "LocalAssignment",
                           names |-> <<<<"REQUIRED_MODULE">>>>,
                           expressions |-> parsed_code.last_stmt.returns]
        /\ \A k \in 1..Len(Declarations) :
               LET d == Declarations[k] IN
               /\ Forwarded(k).stmt = "ExportedTypeDeclaration"
               /\ Forwarded(k).type_name = d.type_name
               /\ Forwarded(k).type_definition.kind = "Module"
               /\ Forwarded(k).type_definition.module = <<"REQUIRED_MODULE">>
               /\ Forwarded(k).type_definition.type_info.base = d.type_name
               /\ Forwarded(k).type_definition.type_info.kind =
                      IF d.generics = <<>> THEN "IndexedBasic" ELSE "IndexedGeneric"
               /\ Forwarded(k).type_definition.type_info.generics = ArgumentsOf(d)
        /\ new.last_stmt = [kind |-> "Return",
                            returns |-> <<[kind |-> "Symbol", name |-> <<"REQUIRED_MODULE">>]>>]

C8_Witness ==
    /\ IsChanged
    /\ Len(code.stmts) = 2
    /\ Len(Declarations) = 2
    /\ Declarations[1].type_name = "Action"
    /\ Declarations[1].generics = <<>>
    /\ Declarations[2].type_name = "Value"
    /\ Len(Declarations[2].generics) = 2
    /\ Declarations[2].generics[2].variadic
    /\ Forwarded(2).type_definition.type_info.generics = <<Basic("T"), GenericPack("S")>>
    /\ Len(mutated.value.ast.stmts) = 3

\* ------------------------------------------- claims about the command
Content(f) == files[WorkingDirectory \o f]

\* this step is mutate_thunk on link f
Processed(f) == outcome[f] = "none" /\ outcome'[f] # "none"

\* the file of the module that link f requires, when the link resolves to one
TargetOf(f) ==
    IF /\ sourcemap # NotLoaded
       /\ Content(f).parses
       /\ Content(f).last_stmt.kind = "Return"
       /\ Content(f).last_stmt.returns # <<>>
       /\ command_match_require(Content(f).last_stmt.returns[1]).tag = "Some"
    THEN required_file_path(f, sourcemap, files,
             command_match_require(Content(f).last_stmt.returns[1]).value)
    ELSE None

\* the module that link f requires parses and exports no type declaration
RequiresUntypedModule(f) ==
    /\ TargetOf(f).tag = "Ok"
    /\ files[TargetOf(f).value].parses
    /\ ExportedIn(files[TargetOf(f).value].stmts) = <<>>

\* the module that link f requires parses and exports type declarations
RequiresTypedModule(f) ==
    /\ TargetOf(f).tag = "Ok"
    /\ files[TargetOf(f).value].parses
    /\ ExportedIn(files[TargetOf(f).value].stmts) # <<>>

\* C1: a link whose target module parses and has no exported type declaration
\* ends Unchanged, and no file is written: its content stays what it was.
C1_UntypedModuleLeavesLink ==
    [][\A f \in LinkFiles :
          (Processed(f) /\ RequiresUntypedModule(f))
              => outcome'[f] = "Unchanged" /\ files' = files]_vars

C1_Witness ==
    \E f \in LinkFiles :
        /\ outcome[f] = "Unchanged"
        /\ RequiresUntypedModule(f)
        /\ Content(f) = LinkTo(<<"script", "Parent", "_Index", "pkg", "Untyped">>)

\* C2: when some link of the batch fails the result is failure, and every other
\* link that is to be rewritten is rewritten, those after the failing one too:
\* once the run has ended in failure no link is left that mutate_thunk would
\* still change.
C2_FailureDoesNotStopBatch ==
    (status = "failed" /\ sourcemap # NotLoaded)
        => /\ \E f \in LinkFiles : outcome[f] = "Failed"
           /\ \A f \in LinkFiles :
                  RequiresTypedModule(f) => outcome[f] = "Changed"

\* C3: a link that the previous run rewrote (Changed) keeps its content when the
\* next run, over the same sourcemap and modules, processes it again.
C3_SecondRunKeepsRewrittenLink ==
    [][\A f \in LinkFiles :
          (Processed(f) /\ prev_outcome[f] = "Changed")
              => Content(f)' = Content(f)]_vars

C3_Witness ==
    \E f \in LinkFiles :
        /\ runs = 2
        /\ prev_outcome[f] = "Changed"
        /\ outcome[f] # "none"
        /\ Content(f).stmts # <<>>

\* C4: only Changed overwrites: when the processing of a link fails, at whatever
\* step, or ends Unchanged, no file at all is written.
C4_OnlyChangedWrites ==
    [][\A f \in LinkFiles :
          (Processed(f) /\ outcome'[f] \in {"Failed", "Unchanged"})
              => files' = files]_vars

C4_Witness ==
    \E f, g \in LinkFiles :
        /\ outcome[f] = "Failed"
        /\ outcome[g] = "Unchanged"
        /\ Content(f) = LinkTo(<<"script", "Parent", "_Index", "pkg", "Broken">>)

\* ------------------------------------------- claims about the path resolution
\* link f ends in a return whose first expression the matcher turns into
\* components that start with an anchor
HasAnchor(f) ==
    /\ sourcemap # NotLoaded
    /\ Content(f).parses
    /\ Content(f).last_stmt.kind = "Return"
    /\ Content(f).last_stmt.returns # <<>>
    /\ command_match_require(Content(f).last_stmt.returns[1]).tag = "Some"
    /\ command_match_require(Content(f).last_stmt.returns[1]).value[1] \in {"script", "game"}

ComponentsOf(f) == command_match_require(Content(f).last_stmt.returns[1]).value

ParentOf(tree, n) == CHOOSE p \in 1..Len(tree) : Contains(tree[p].children, n)

\* the root-to-node chain of node n
RECURSIVE ChainTo(_, _)
ChainTo(tree, n) ==
    IF n = Root THEN <<Root>> ELSE Append(ChainTo(tree, ParentOf(tree, n)), n)

\* the node that owns a file
OwnerOf(tree, file) == CHOOSE n \in 1..Len(tree) : Contains(tree[n].file_paths, file)

AnchorChain(f) ==
    IF ComponentsOf(f)[1] = "script"
    THEN ChainTo(sourcemap, OwnerOf(sourcemap, WorkingDirectory \o f))
    ELSE <<Root>>

NamedChildren(tree, n, name) ==
    {i \in 1..Len(tree[n].children) : tree[tree[n].children[i]].name = name}
FirstChild(tree, n, name) ==
    tree[n].children[CHOOSE i \in NamedChildren(tree, n, name) :
                        \A j \in NamedChildren(tree, n, name) : i <= j]

\* every Parent component is met above the root and every other component
\* names a child of the node the chain then ends in
RECURSIVE Walkable(_, _, _)
Walkable(tree, chain, components) ==
    \/ components = <<>>
    \/ /\ components # <<>>
       /\ Head(components) = "Parent"
       /\ Len(chain) >= 2
       /\ Walkable(tree, SubSeq(chain, 1, Len(chain) - 1), Tail(components))
    \/ /\ components # <<>>
       /\ Head(components) # "Parent"
       /\ NamedChildren(tree, chain[Len(chain)], Head(components)) # {}
       /\ Walkable(tree, Append(chain, FirstChild(tree, chain[Len(chain)], Head(components))),
                   Tail(components))

\* the chain after the components: Parent removes its last node, any other
\* component appends the first child of that name
RECURSIVE Walk(_, _, _)
Walk(tree, chain, components) ==
    IF components = <<>> THEN chain
    ELSE IF Head(components) = "Parent"
    THEN Walk(tree, SubSeq(chain, 1, Len(chain) - 1), Tail(components))
    ELSE Walk(tree, Append(chain, FirstChild(tree, chain[Len(chain)], Head(components))),
              Tail(components))

\* C11: the resolution starts from the root-to-node chain of the node that owns
\* the link (anchor script) or from the root alone (anchor game); each Parent
\* removes the last node of the chain and each other component appends the first
\* child of that name; the required node is the last node of the chain.  From a
\* link three levels below the root, script.Parent.Parent.Sibling is the child
\* named Sibling of the grandparent of the link's node.
C11_ResolveWalksChain ==
    [][\A f \in LinkFiles :
          (/\ Processed(f)
           /\ HasAnchor(f)
           /\ Walkable(sourcemap, AnchorChain(f), Tail(ComponentsOf(f))))
              => LET chain == Walk(sourcemap, AnchorChain(f), Tail(ComponentsOf(f))) IN
                 /\ node_path' = Ok(chain)
                 /\ file_path'.tag = "Ok"
                        => Contains(sourcemap[chain[Len(chain)]].file_paths, file_path'.value)
                 /\ (/\ ComponentsOf(f) = <<"script", "Parent", "Parent", "Sibling">>
                     /\ Len(AnchorChain(f)) = 4)
                        => /\ sourcemap[chain[Len(chain)]].name = "Sibling"
                           /\ ParentOf(sourcemap, chain[Len(chain)]) = AnchorChain(f)[2]]_vars

C11_Witness ==
    /\ sourcemap # NotLoaded
    /\ Len(ChainTo(sourcemap, OwnerOf(sourcemap, WorkingDirectory \o LinkC))) = 4
    /\ outcome[LinkC] = "Changed"
    /\ Content(LinkC).stmts[1].expressions =
           <<RequireOf(<<"script", "Parent", "Parent", "Sibling">>)>>
    /\ node_path = Ok(<<1, 4, 13>>)
    /\ sourcemap[13].name = "Sibling"
    /\ file_path.tag = "Ok"
    /\ file_path.value = WorkingDirectory \o SiblingModule

\* a Parent component is met while the chain holds the root alone
RECURSIVE PopsRoot(_, _, _)
PopsRoot(tree, chain, components) ==
    /\ components # <<>>
    /\ IF Head(components) = "Parent"
       THEN \/ Len(chain) = 1
            \/ /\ Len(chain) >= 2
               /\ PopsRoot(tree, SubSeq(chain, 1, Len(chain) - 1), Tail(components))
       ELSE /\ NamedChildren(tree, chain[Len(chain)], Head(components)) # {}
            /\ PopsRoot(tree,
                        Append(chain, FirstChild(tree, chain[Len(chain)], Head(components))),
                        Tail(components))

\* C12: a Parent component met while the chain holds only the root makes the
\* link fail at that component: the loop over the components ends in an error
\* there, with the root still in the chain (the root is not popped, the chain
\* never becomes empty), and nothing is written.
C12_ParentAtRootFailsThere ==
    [][\A f \in LinkFiles :
          (/\ Processed(f)
           /\ HasAnchor(f)
           /\ PopsRoot(sourcemap, AnchorChain(f), Tail(ComponentsOf(f))))
              => /\ outcome'[f] = "Failed"
                 /\ files' = files
                 /\ node_path'.tag = "Panic"
                 /\ node_path'.value = <<Root>>]_vars

\* ------------------------------------------- claims about the link file
\* link f parses, and its final statement is not a return of exactly one
\* expression: there is none, or it is no return, or it returns zero or several
MalformedLink(f) ==
    /\ Content(f).parses
    /\ ~ (/\ Content(f).last_stmt.kind = "Return"
          /\ Len(Content(f).last_stmt.returns) = 1)

\* C13: a link whose final statement is not a return of exactly one expression
\* ends Failed: it is not reported as success (Changed or Unchanged) and no file
\* is written.
C13_MalformedLinkFails ==
    [][\A f \in LinkFiles :
          (Processed(f) /\ MalformedLink(f))
              => outcome'[f] = "Failed" /\ files' = files]_vars

\* ------------------------------------------- claims about the module file
\* the files whose extension marks a script or module source (.lua)
ModuleSourceFiles ==
    {WorkingDirectory \o file :
        file \in {LinkA, LinkB, LinkC, TypedModule, UntypedModule, BrokenModule,
                  MixedModule, SiblingModule}}

\* the entries of a node's file_paths that are module sources, in declared order
ModuleEntries(node) ==
    SelectSeq(node.file_paths, LAMBDA file : file \in ModuleSourceFiles)

\* C14: the file of the required module is the first entry of the resolved
\* node's file_paths, in declared order, that is a script/module source, earlier
\* entries of other kinds being skipped; when the node has no such entry (its
\* file_paths being empty included) the link fails.
C14_FirstModuleSourceSelected ==
    [][\A f \in LinkFiles :
          (Processed(f) /\ node_path'.tag = "Ok" /\ Len(node_path'.value) > 0)
              => LET node == sourcemap[node_path'.value[Len(node_path'.value)]] IN
                 IF ModuleEntries(node) # <<>>
                 THEN /\ file_path'.tag = "Ok"
                      /\ file_path'.value = ModuleEntries(node)[1]
                 ELSE /\ file_path'.tag # "Ok"
                      /\ outcome'[f] = "Failed"]_vars

\* ------------------------------------------- claims about the run
\* some file path of some node of the sourcemap file names no existing file
Uncanonicalizable ==
    \E n \in 1..Len(sourcemap_json) : \E i \in 1..Len(sourcemap_json[n].file_paths) :
        (WorkingDirectory \o sourcemap_json[n].file_paths[i]) \notin DOMAIN files

\* every file path of every node of the loaded sourcemap is the absolute path of
\* an existing file
AllCanonical ==
    /\ sourcemap # NotLoaded
    /\ \A n \in 1..Len(sourcemap) : \A i \in 1..Len(sourcemap[n].file_paths) :
           sourcemap[n].file_paths[i] \in DOMAIN files

\* C15: canonicalization comes before all work on the links: when some file path
\* of the sourcemap cannot be canonicalized the run ends in failure with no link
\* read, processed or written (both copies of mutate_sourcemap fail then), and a
\* link is only ever processed under a sourcemap whose file paths are all
\* canonical.
C15_CanonicalizationFirst ==
    [][/\ Uncanonicalizable
          => /\ mutate_sourcemap(sourcemap_json, files).tag = "Panic"
             /\ sourcemap_mutate_sourcemap(sourcemap_json, files).tag = "Err"
             /\ files' = files
             /\ outcome' = NoOutcome
             /\ sourcemap' = NotLoaded
             /\ runs' # runs => status' = "failed" /\ pending' = <<>>
       /\ \A f \in LinkFiles :
              Processed(f)
                  => /\ ~ Uncanonicalizable
                     /\ AllCanonical
                     /\ Ok(sourcemap) = sourcemap_mutate_sourcemap(sourcemap_json, files)]_vars

C15_Witness ==
    /\ Uncanonicalizable
    /\ sourcemap_json = StaleSourcemap
    /\ runs = 2
    /\ status = "failed"
    /\ sourcemap = NotLoaded
    /\ outcome = NoOutcome
====
